---- MODULE Spec2Model ----
(***************************************************************************)
(* Offline synchronisation and conflict resolution of the mobile-clinic    *)
(* backend: the sync_status ledger, the conflict detector, the batch       *)
(* upload handler, the conflict resolution handler, the legacy pending     *)
(* upsert and the OfflineSyncManager background worker.                    *)
(*                                                                         *)
(* Python None / SQL NULL is NULL for numbers (ids, timestamps) and the    *)
(* empty string for text; both are falsy in Python, as the handlers'       *)
(* `not x` tests see them.  Timestamps are clock readings 1..MaxTime,      *)
(* compared by the store.  Every DatabaseManager.execute_query call may    *)
(* fail (no connection, SQL error): it then returns None and writes        *)
(* nothing; whether it does is the environment's choice.                   *)
(***************************************************************************)
EXTENDS Integers, Sequences, FiniteSets, TLC

\* ------------------------------------------------------------------ bounds
MaxTime == 2        \* clock readings 1..MaxTime
MaxDetRows == 2     \* ledger rows present when detect() is exercised
MaxOps == 2         \* operations in one batch upload
MaxRows == 3        \* rows the ledger may grow to
MaxQueue == 1       \* appends to one device's queue by request handlers
MaxInitRows == 2    \* ledger rows stored before the process starts
MaxRetry == 1       \* legacy upserts of one key
NULL == 0           \* None / SQL NULL of a numeric field
ErrorCap == 10      \* errors[:10]

\* --------------------------------------------------------------- value sets
Times == 1..MaxTime
Tables == {"patients", "patient_visits"}
Devices == {"d1", "d2"}
Statuses == {"Conflict", "Pending", "Synced", "Failed", "Resolved"}

VARIABLES
    ledger,              \* the sync_status table: row id = position
    records,             \* the business tables: rows [table, id, updated_at, created_at]
    audit,               \* the audit_log table
    pending_operations,  \* OfflineSyncManager.pending_operations: device -> list
    appended,            \* per device: how many operations add_operation appended
    processed_log,       \* per device: the operations the worker processed, in order
    call,                \* the last call made (its inputs)
    result,              \* what that call returned
    sync_lock,           \* OfflineSyncManager.sync_lock: "free" or the thread holding it
    threads              \* per thread: where it is in add_operation / process_pending_syncs

vars == <<ledger, records, audit, pending_operations, appended, processed_log, call, result,
          sync_lock, threads>>

\* No call made yet / nothing returned.
NoCall == [op |-> "none"]

\* The auto_sync_worker thread and two request-handler threads; a thread
\* outside the manager's methods holds no lock and has no locals.
Threads == {"worker", "h1", "h2"}

Idle == [at |-> "idle", device_id |-> "", operation |-> NoCall, todo |-> <<>>]

ThreadsIdle ==
    /\ sync_lock = "free"
    /\ threads = [t \in Threads |-> Idle]

\* ------------------------------------------------------------ the store
\* A ledger row as the INSERT statements write it (columns not named take the
\* table's defaults).
LedgerRow(table_name, record_id, operation_type, sync_status, device_id, user_id, local_timestamp, server_timestamp) ==
    [table_name |-> table_name, record_id |-> record_id,
     operation_type |-> operation_type, sync_status |-> sync_status,
     device_id |-> device_id, user_id |-> user_id,
     local_timestamp |-> local_timestamp, server_timestamp |-> server_timestamp,
     retry_count |-> 0, last_retry_at |-> NULL, synced_at |-> NULL]

\* SQL's a > b: unknown (not true) when either side is NULL.
SqlGreater(a, b) == a # NULL /\ b # NULL /\ a > b

\* What execute_query(..., fetch=True) returns: None when the query failed,
\* else the list of rows.
QueryFailed == [ok |-> FALSE, rows |-> <<>>]
QueryRows(rows) == [ok |-> TRUE, rows |-> rows]

\* Python's truth test of such a result: None and [] are falsy.
Truthy(res) == res.ok /\ Len(res.rows) > 0

\* A finite set as a sequence, in some order.
RECURSIVE SetToSeq(_)
SetToSeq(S) ==
    IF S = {} THEN <<>>
    ELSE LET x == CHOOSE y \in S : TRUE IN <<x>> \o SetToSeq(S \ {x})

\* SELECT updated_at, created_at FROM {table_name}
\*   WHERE id = %s AND (updated_at > %s OR created_at > %s)
\* An unknown table is an SQL error; `id = NULL` matches no row.
\* (The query with `id <=> %s`, the comparison that holds of two NULLs, on a
\* table that has a row without id.)
ServerCheckQueryNullSafe(table_name, record_id, local_timestamp, up) ==
    IF ~up \/ table_name \notin Tables THEN QueryFailed
    ELSE QueryRows(SetToSeq({r \in records :
            /\ r.table = table_name
            /\ record_id = NULL \/ r.id = record_id
            /\ \/ SqlGreater(r.updated_at, local_timestamp)
               \/ SqlGreater(r.created_at, local_timestamp)}))

ServerCheckQuery(table_name, record_id, local_timestamp, up) ==
    IF ~up \/ table_name \notin Tables THEN QueryFailed
    ELSE QueryRows(SetToSeq({r \in records :
            /\ r.table = table_name
            /\ record_id # NULL /\ r.id = record_id
            /\ \/ SqlGreater(r.updated_at, local_timestamp)
               \/ SqlGreater(r.created_at, local_timestamp)}))

\* SELECT COUNT(*) as count FROM sync_status
\*   WHERE table_name = %s AND record_id = %s
\*   AND local_timestamp > %s AND sync_status = 'Pending'
\* L is the sync_status table as the query finds it; `record_id = NULL` is true
\* of no row.  (The count without its `sync_status = 'Pending'` condition.)
ConcurrentCountAnyStatus(L, table_name, record_id, local_timestamp) ==
    Cardinality({i \in 1..Len(L) :
        /\ L[i].table_name = table_name
        /\ record_id # NULL /\ L[i].record_id = record_id
        /\ SqlGreater(L[i].local_timestamp, local_timestamp)})

ConcurrentCount(L, table_name, record_id, local_timestamp) ==
    Cardinality({i \in 1..Len(L) :
        /\ L[i].table_name = table_name
        /\ record_id # NULL /\ L[i].record_id = record_id
        /\ SqlGreater(L[i].local_timestamp, local_timestamp)
        /\ L[i].sync_status = "Pending"})

ConcurrentCheckQuery(L, table_name, record_id, local_timestamp, up) ==
    IF ~up THEN QueryFailed
    ELSE QueryRows(<<[count |-> ConcurrentCount(L, table_name, record_id, local_timestamp)]>>)

\* ------------------------------------------------------ Conflict Detector
NoConflict == [type |-> "none"]

\* Python's `a or b` on two column values.
PyOr(a, b) == IF a # NULL THEN a ELSE b

\* (The conflict record carrying created_at alone.)
NewerServerVersionByCreation(server_check, local_timestamp) ==
    [type |-> "newer_server_version",
     server_timestamp |-> server_check.rows[1].created_at,
     local_timestamp |-> local_timestamp]

NewerServerVersion(server_check, local_timestamp) ==
    [type |-> "newer_server_version",
     server_timestamp |-> PyOr(server_check.rows[1].updated_at,
                               server_check.rows[1].created_at),
     local_timestamp |-> local_timestamp]

\* detect_sync_conflicts(table_name, record_id, local_timestamp, operation_type)
\* reading the ledger L; up1, up2: whether the first and the second query reach the store.  A failed
\* query returns None inside execute_query, so the function goes on to the next
\* check; nothing in the body raises.
\* (The two checks in the other order.)
detect_sync_conflicts_pending_first(L, table_name, record_id, local_timestamp, up1, up2) ==
    LET server_check == ServerCheckQuery(table_name, record_id, local_timestamp, up1)
        concurrent_check == ConcurrentCheckQuery(L, table_name, record_id, local_timestamp, up2)
    IN  IF Truthy(concurrent_check) /\ concurrent_check.rows[1].count > 0
        THEN [type |-> "concurrent_modification",
              pending_operations |-> concurrent_check.rows[1].count]
        ELSE IF Truthy(server_check)
        THEN NewerServerVersion(server_check, local_timestamp)
        ELSE NoConflict

detect_sync_conflicts(L, table_name, record_id, local_timestamp, up1, up2) ==
    LET server_check == ServerCheckQuery(table_name, record_id, local_timestamp, up1)
        concurrent_check == ConcurrentCheckQuery(L, table_name, record_id, local_timestamp, up2)
    IN  IF Truthy(server_check)
        THEN NewerServerVersion(server_check, local_timestamp)
        ELSE IF Truthy(concurrent_check) /\ concurrent_check.rows[1].count > 0
        THEN [type |-> "concurrent_modification",
              pending_operations |-> concurrent_check.rows[1].count]
        ELSE NoConflict

\* --------------------------------------------------------- Sync Processor
\* An operation of a batch, as the client sent it: a dict with table_name,
\* record_id, operation_type, local_timestamp and, if the client put one,
\* sync_id (the key the worker reads).
Operation(table_name, record_id, operation_type, local_timestamp, sync_id) ==
    [table_name |-> table_name, record_id |-> record_id,
     operation_type |-> operation_type, local_timestamp |-> local_timestamp,
     sync_id |-> sync_id]

\* The unique key of sync_status behind the legacy endpoint's ON DUPLICATE KEY
\* UPDATE: (table_name, record_id, device_id).  The id of the row holding the
\* key, or NULL; a NULL record_id clashes with nothing.
KeyHolder(L, table_name, record_id, device_id) ==
    LET hit == {i \in 1..Len(L) :
                  /\ L[i].table_name = table_name
                  /\ record_id # NULL /\ L[i].record_id = record_id
                  /\ L[i].device_id = device_id}
    IN  IF hit = {} THEN NULL ELSE CHOOSE i \in hit : TRUE

\* process_sync_operation: INSERT INTO sync_status (...) VALUES (..., 'Pending',
\* ...); `result is not None`.  A failed INSERT (store down, key clash) returns
\* None and writes nothing.
\* (The same with `return True` in place of `return result is not None`.)
process_sync_operation_true(L, operation, device_id, user_id, up, now) ==
    IF up /\ KeyHolder(L, operation.table_name, operation.record_id, device_id) = NULL
    THEN [ok |-> TRUE,
          ledger |-> Append(L, LedgerRow(operation.table_name, operation.record_id,
                                         operation.operation_type, "Pending",
                                         device_id, user_id,
                                         operation.local_timestamp, now))]
    ELSE [ok |-> TRUE, ledger |-> L]

process_sync_operation(L, operation, device_id, user_id, up, now) ==
    IF up /\ KeyHolder(L, operation.table_name, operation.record_id, device_id) = NULL
    THEN [ok |-> TRUE,
          ledger |-> Append(L, LedgerRow(operation.table_name, operation.record_id,
                                         operation.operation_type, "Pending",
                                         device_id, user_id,
                                         operation.local_timestamp, now))]
    ELSE [ok |-> FALSE, ledger |-> L]

\* --------------------------------------------- OfflineSyncManager.add_operation
\* with self.sync_lock: self.pending_operations[device_id].append(operation).
\* P is the queue map, A the count of appends; a queued entry is the dict
\* together with n, its identity (the how-manieth append to that device it is).
\* (An insert at the head instead of the append.)
add_operation_prepend(P, A, device_id, operation) ==
    [pending |-> [P EXCEPT ![device_id] =
                     <<[n |-> A[device_id] + 1, op |-> operation]>> \o @],
     appended |-> [A EXCEPT ![device_id] = @ + 1]]

add_operation(P, A, device_id, operation) ==
    [pending |-> [P EXCEPT ![device_id] =
                     Append(@, [n |-> A[device_id] + 1, op |-> operation])],
     appended |-> [A EXCEPT ![device_id] = @ + 1]]

\* ------------------------------------------------- Batch Upload Handler
\* batch_sync_upload is a module-level route function that calls
\* self.detect_sync_conflicts(...): no name `self` is bound in it or in the
\* module, so evaluating the call raises NameError, which the loop's
\* `except Exception` turns into a failed operation.
\* (Were the handler a method, the name would resolve.)
SelfResolves == TRUE

SelfIsBound == FALSE

\* (The test without local_timestamp.)
MissingRequiredNoTimestamp(operation) ==
    \/ operation.table_name = ""
    \/ operation.operation_type = ""

\* `not all([table_name, operation_type, local_timestamp])`
MissingRequired(operation) ==
    \/ operation.table_name = ""
    \/ operation.operation_type = ""
    \/ operation.local_timestamp = NULL

\* The handler's locals before the loop, with the store and the queue map as
\* the loop finds them; detect_calls counts the calls of the Conflict Detector.
BatchStart(L, P, A) ==
    [ledger |-> L, pending |-> P, appended |-> A,
     processed_count |-> 0, failed_count |-> 0,
     conflicts |-> <<>>, errors |-> <<>>, detect_calls |-> 0]

\* (The error recorded without `failed_count += 1`.)
CountFailedErrorOnly(st, message) ==
    [st EXCEPT !.errors = Append(@, message)]

CountFailed(st, message) ==
    [st EXCEPT !.failed_count = @ + 1, !.errors = Append(@, message)]

\* The part of the loop body after validation, once `self` resolves.
DetectAndProcess(st, operation, device_id, user_id, force_overwrite, env, now) ==
    LET conflict_result ==
            detect_sync_conflicts(st.ledger, operation.table_name, operation.record_id,
                                  operation.local_timestamp, env.up1, env.up2)
        seen == [st EXCEPT !.detect_calls = @ + 1]
        done == process_sync_operation(st.ledger, operation, device_id, user_id,
                                       env.up3, now)
        queued == add_operation(st.pending, st.appended, device_id, operation)
    IN  IF conflict_result # NoConflict /\ ~force_overwrite
        THEN [seen EXCEPT !.conflicts = Append(@,
                 [table_name |-> operation.table_name,
                  record_id |-> operation.record_id,
                  conflict_type |-> conflict_result.type,
                  conflict_details |-> conflict_result])]
        ELSE IF done.ok
        THEN [seen EXCEPT !.processed_count = @ + 1,
                          !.ledger = done.ledger,
                          !.pending = queued.pending,
                          !.appended = queued.appended]
        ELSE CountFailed(seen, "Failed to process")

\* One pass of `for operation in operations`.
HandleOperation(st, operation, device_id, user_id, force_overwrite, env, now) ==
    IF MissingRequired(operation)
    THEN CountFailed(st, "Missing required fields")
    ELSE IF ~SelfIsBound
    THEN CountFailed(st, "name 'self' is not defined")
    ELSE DetectAndProcess(st, operation, device_id, user_id, force_overwrite, env, now)

\* The loop over operations[i..]; envs[i] says which of the i-th operation's
\* queries reach the store.
RECURSIVE BatchLoop(_, _, _, _, _, _, _, _)
\* (The loop with the try around it instead of inside it: the first failed
\* operation ends it.)
BatchLoopAbort(st, operations, i, device_id, user_id, force_overwrite, envs, now) ==
    IF i > Len(operations) THEN st
    ELSE LET nx == HandleOperation(st, operations[i], device_id, user_id,
                                   force_overwrite, envs[i], now)
         IN  IF nx.failed_count > st.failed_count THEN nx
             ELSE BatchLoop(nx, operations, i + 1, device_id, user_id,
                            force_overwrite, envs, now)

BatchLoop(st, operations, i, device_id, user_id, force_overwrite, envs, now) ==
    IF i > Len(operations) THEN st
    ELSE BatchLoop(HandleOperation(st, operations[i], device_id, user_id,
                                   force_overwrite, envs[i], now),
                   operations, i + 1, device_id, user_id, force_overwrite, envs, now)

Min(a, b) == IF a < b THEN a ELSE b

\* The 200 response.
BatchResponse(st, operations) ==
    [status |-> 200, success |-> TRUE,
     processed |-> st.processed_count, failed |-> st.failed_count,
     conflicts |-> Len(st.conflicts), total_operations |-> Len(operations),
     conflict_list |-> st.conflicts,
     errors |-> SubSeq(st.errors, 1, Min(ErrorCap, Len(st.errors))),
     detect_calls |-> st.detect_calls]

ErrorResponse(code) == [status |-> code, success |-> FALSE]

\* (The test of device_id alone.)
RequestMalformedNoDevice(device_id, operations) == device_id = ""

\* `not device_id or not operations`
RequestMalformed(device_id, operations) == device_id = "" \/ operations = <<>>

\* POST /api/sync/offline/batch-upload
batch_sync_upload(device_id, operations, force_overwrite, user_id, envs, now) ==
    LET st == BatchLoop(BatchStart(ledger, pending_operations, appended), operations, 1,
                        device_id, user_id, force_overwrite, envs, now)
    IN  /\ call' = [op |-> "batch_upload", device_id |-> device_id,
                    operations |-> operations, force_overwrite |-> force_overwrite,
                    user_id |-> user_id, envs |-> envs]
        /\ IF RequestMalformed(device_id, operations)
           THEN /\ result' = ErrorResponse(400)
                /\ UNCHANGED <<ledger, pending_operations, appended>>
           ELSE /\ result' = BatchResponse(st, operations)
                /\ ledger' = st.ledger
                /\ pending_operations' = st.pending
                /\ appended' = st.appended
        /\ UNCHANGED <<records, audit, processed_log,
                       sync_lock, threads>>

\* ------------------------------------------- Conflict Resolution Handler
\* UPDATE sync_status SET sync_status = <status>, synced_at = %s WHERE id = %s
\* (no row has id NULL; a failed UPDATE writes nothing and returns None, which
\* no caller looks at).
StatusUpdate(L, id, status, now, up) ==
    IF up /\ id \in 1..Len(L)
    THEN [L EXCEPT ![id].sync_status = status, ![id].synced_at = now]
    ELSE L

\* SELECT * FROM sync_status WHERE id = %s AND sync_status = 'Conflict'
\* (The lookup without its status condition.)
ConflictQueryAnyStatus(L, conflict_id, up) ==
    IF ~up THEN QueryFailed
    ELSE IF conflict_id \in 1..Len(L)
    THEN QueryRows(<<L[conflict_id]>>)
    ELSE QueryRows(<<>>)

ConflictQuery(L, conflict_id, up) ==
    IF ~up THEN QueryFailed
    ELSE IF conflict_id \in 1..Len(L) /\ L[conflict_id].sync_status = "Conflict"
    THEN QueryRows(<<L[conflict_id]>>)
    ELSE QueryRows(<<>>)

\* The if / elif chain on resolution; any other value updates nothing.
ApplyResolution(L, conflict_id, resolution, now, up) ==
    CASE resolution = "use_server" -> StatusUpdate(L, conflict_id, "Resolved", now, up)
      [] resolution = "use_local"  -> StatusUpdate(L, conflict_id, "Synced", now, up)
      [] resolution = "merge"      -> StatusUpdate(L, conflict_id, "Synced", now, up)
      [] OTHER -> L

\* audit_log(action, table_name, record_id, old_values, new_values): one INSERT
\* INTO audit_log; a failure is swallowed.
audit_log(A, user_id, action, table_name, record_id, new_values, up) ==
    IF up
    THEN Append(A, [user_id |-> user_id, table_name |-> table_name,
                    record_id |-> record_id, action |-> action,
                    new_values |-> new_values])
    ELSE A

\* POST /api/sync/conflict/resolve; env.up1, up2, up3: whether the SELECT, the
\* UPDATE and the audit INSERT reach the store.
resolve_sync_conflict(conflict_id, resolution, user_id, env, now) ==
    LET conflict == ConflictQuery(ledger, conflict_id, env.up1)
    IN  /\ call' = [op |-> "resolve", conflict_id |-> conflict_id,
                    resolution |-> resolution, user_id |-> user_id, env |-> env]
        /\ IF conflict_id = NULL \/ resolution = ""
           THEN /\ result' = ErrorResponse(400)
                /\ UNCHANGED <<ledger, audit>>
           ELSE IF ~Truthy(conflict)
           THEN /\ result' = ErrorResponse(404)
                /\ UNCHANGED <<ledger, audit>>
           ELSE /\ ledger' = ApplyResolution(ledger, conflict_id, resolution, now, env.up2)
                /\ audit' = audit_log(audit, user_id, "RESOLVE_CONFLICT", "sync_status",
                                      conflict_id,
                                      [resolution |-> resolution,
                                       table_name |-> conflict.rows[1].table_name,
                                       record_id |-> conflict.rows[1].record_id],
                                      env.up3)
                /\ result' = [status |-> 200, success |-> TRUE]
        /\ UNCHANGED <<records, pending_operations, appended, processed_log,
                       sync_lock, threads>>

\* ------------------------------------------------ legacy pending upsert
\* INSERT INTO sync_status (...) VALUES (..., 'Pending', ...)
\*   ON DUPLICATE KEY UPDATE sync_status = 'Pending',
\*     retry_count = retry_count + 1, last_retry_at = NOW()
\* server_timestamp is not among the columns and takes the table's default,
\* the time of the INSERT.
\* (The INSERT without its ON DUPLICATE KEY UPDATE clause, on a table without
\* the key.)
UpsertInsert(L, record, device_id, user_id, now, up) ==
    IF ~up THEN L
    ELSE Append(L, LedgerRow(record.table_name, record.record_id,
                             record.operation_type, "Pending", device_id,
                             user_id, record.timestamp, now))

Upsert(L, record, device_id, user_id, now, up) ==
    LET held == KeyHolder(L, record.table_name, record.record_id, device_id)
    IN  IF ~up THEN L
        ELSE IF held = NULL
        THEN Append(L, LedgerRow(record.table_name, record.record_id,
                                 record.operation_type, "Pending", device_id,
                                 user_id, record.timestamp, now))
        ELSE [L EXCEPT ![held].sync_status = "Pending",
                       ![held].retry_count = @ + 1,
                       ![held].last_retry_at = now]

\* `for record in records`: execute_query raises nothing, so every record
\* is counted in synced_count.
RECURSIVE UpsertLoop(_, _, _, _, _, _, _)
UpsertLoop(st, recs, i, device_id, user_id, envs, now) ==
    IF i > Len(recs) THEN st
    ELSE UpsertLoop([ledger |-> Upsert(st.ledger, recs[i], device_id, user_id, now, envs[i]),
                     synced_count |-> st.synced_count + 1,
                     failed_count |-> st.failed_count],
                    recs, i + 1, device_id, user_id, envs, now)

\* POST /api/sync/pending (app.py)
sync_pending_records(device_id, recs, user_id, envs, now) ==
    LET st == UpsertLoop([ledger |-> ledger, synced_count |-> 0, failed_count |-> 0],
                         recs, 1, device_id, user_id, envs, now)
    IN  /\ call' = [op |-> "sync_pending", device_id |-> device_id, records |-> recs,
                    user_id |-> user_id, envs |-> envs]
        /\ IF device_id = "" \/ recs = <<>>
           THEN /\ result' = ErrorResponse(400)
                /\ UNCHANGED ledger
           ELSE /\ result' = [status |-> 200, success |-> TRUE,
                              synced_count |-> st.synced_count,
                              failed_count |-> st.failed_count]
                /\ ledger' = st.ledger
        /\ UNCHANGED <<records, audit, pending_operations, appended, processed_log,
                       sync_lock, threads>>

\* ------------------------------------------------------ Auto-Sync Worker
\* operations[:10] and operations[10:]
BatchSize == 10

\* (The whole list instead of the slice.)
FirstBatchAll(operations) == operations

FirstBatch(operations) == SubSeq(operations, 1, Min(BatchSize, Len(operations)))

\* (The list left as it is.)
RestAfterBatchKept(operations) == operations

RestAfterBatch(operations) == SubSeq(operations, BatchSize + 1, Len(operations))

\* "Mark as synced": UPDATE ... SET sync_status = 'Synced' ... WHERE id =
\* operation.get('sync_id').
\* (The same UPDATE writing 'Failed'.)
MarkFailed(L, operation, now, up) == StatusUpdate(L, operation.sync_id, "Failed", now, up)

MarkSynced(L, operation, now, up) == StatusUpdate(L, operation.sync_id, "Synced", now, up)

\* sync_device_operations: sync_patient_data and sync_visit_data are `pass`;
\* a failed UPDATE raises nothing.
RECURSIVE sync_device_operations(_, _, _, _)
sync_device_operations(L, entries, now, up) ==
    IF entries = <<>> THEN L
    ELSE sync_device_operations(MarkSynced(L, Head(entries).op, now, up),
                                Tail(entries), now, up)

\* The identities of queued entries.
Tags(entries) == [i \in 1..Len(entries) |-> entries[i].n]

\* process_pending_syncs, under sync_lock: for every device whose list is not
\* empty, sync the first ten and keep the rest.  No exception leaves
\* sync_device_operations, so the list is always cut.
RECURSIVE DrainDevices(_, _, _, _)
DrainDevices(L, devices, now, up) ==
    IF devices = <<>> THEN L
    ELSE DrainDevices(sync_device_operations(L, FirstBatch(pending_operations[Head(devices)]),
                                             now, up),
                      Tail(devices), now, up)

process_pending_syncs(now, up) ==
    /\ call' = [op |-> "tick", before |-> pending_operations, up |-> up]
    /\ ledger' = DrainDevices(ledger, SetToSeq(Devices), now, up)
    /\ pending_operations' = [d \in Devices |-> RestAfterBatch(pending_operations[d])]
    /\ processed_log' = [d \in Devices |->
                            processed_log[d] \o Tags(FirstBatch(pending_operations[d]))]
    /\ result' = [processed |-> [d \in Devices |-> FirstBatch(pending_operations[d])]]
    /\ UNCHANGED <<records, audit, appended,
                   sync_lock, threads>>

\* A request handler's sync_manager.add_operation(device_id, operation).
AddOperation(device_id, operation) ==
    LET q == add_operation(pending_operations, appended, device_id, operation)
    IN  /\ call' = [op |-> "add_operation", device_id |-> device_id,
                    operation |-> operation]
        /\ result' = NoCall
        /\ pending_operations' = q.pending
        /\ appended' = q.appended
        /\ UNCHANGED <<ledger, records, audit, processed_log,
                       sync_lock, threads>>

\* ------------------------------------------------- detect() on its own

\* No two rows of L hold the same (table_name, record_id, device_id).
UniqueKeys(L) ==
    \A i \in 1..Len(L) :
        KeyHolder(SubSeq(L, 1, i - 1), L[i].table_name, L[i].record_id,
                  L[i].device_id) = NULL

\* Rows of the ledger as detect() finds them: written earlier for table
\* patients, the i-th by device d1 or d2 in turn, Pending or already Synced.
DetRows(i) ==
    {LedgerRow("patients", rid, "UPDATE", st, IF i % 2 = 1 THEN "d1" ELSE "d2", 1, ts, 1) :
        rid \in {NULL, 1}, st \in {"Pending", "Synced"}, ts \in Times}

DetLedgers ==
    {L \in UNION {[1..n -> UNION {DetRows(i) : i \in 1..n}] : n \in 0..MaxDetRows} :
        /\ \A i \in 1..Len(L) : L[i] \in DetRows(i)
        /\ UniqueKeys(L)}

\* The business record patients/1, if there is one.
DetRecords ==
    {{}} \cup {{[table |-> "patients", id |-> 1, updated_at |-> u, created_at |-> c]} :
                 u \in {NULL} \cup Times, c \in Times}

InitDetect ==
    /\ ledger \in DetLedgers
    /\ records \in DetRecords
    /\ audit = <<>>
    /\ pending_operations = [d \in Devices |-> <<>>]
    /\ appended = [d \in Devices |-> 0]
    /\ processed_log = [d \in Devices |-> <<>>]
    /\ call = NoCall
    /\ result = NoCall
    /\ ThreadsIdle

DetectCall(table_name, record_id, local_timestamp, up1, up2) ==
    /\ call = NoCall
    /\ call' = [op |-> "detect", table_name |-> table_name, record_id |-> record_id,
                local_timestamp |-> local_timestamp, up1 |-> up1, up2 |-> up2]
    /\ result' = detect_sync_conflicts(ledger, table_name, record_id, local_timestamp, up1, up2)
    /\ UNCHANGED <<ledger, records, audit, pending_operations, appended, processed_log,
                   sync_lock, threads>>

NextDetect ==
    \E t \in Tables, rid \in {NULL, 1}, ts \in Times, up1 \in BOOLEAN, up2 \in BOOLEAN :
        DetectCall(t, rid, ts, up1, up2)

SpecDetect == InitDetect /\ [][NextDetect]_vars

\* ---------------------------------------------- batch upload on its own
\* The store is reachable for all three queries of an operation, for none of
\* the detector's, or not for the INSERT.
Envs ==
    {[up1 |-> TRUE, up2 |-> TRUE, up3 |-> TRUE],
     [up1 |-> FALSE, up2 |-> FALSE, up3 |-> TRUE],
     [up1 |-> TRUE, up2 |-> TRUE, up3 |-> FALSE]}

\* An update of patients/1 made at time 1, an insert of a new patient, and two
\* operations that lack a required field.
BatchOps ==
    {Operation("patients", 1, "UPDATE", 1, NULL),
     Operation("patients", NULL, "INSERT", 2, NULL),
     Operation("", 1, "UPDATE", 1, NULL),
     Operation("patients", 1, "UPDATE", NULL, NULL)}

\* Another device's later update of patients/1, still Pending.
OtherPending == LedgerRow("patients", 1, "UPDATE", "Pending", "d2", 1, 2, 2)

InitBatch ==
    /\ ledger \in {<<>>, <<OtherPending>>}
    /\ records \in {{}, {[table |-> "patients", id |-> 1,
                          updated_at |-> 2, created_at |-> 1]}}
    /\ audit = <<>>
    /\ pending_operations = [d \in Devices |-> <<>>]
    /\ appended = [d \in Devices |-> 0]
    /\ processed_log = [d \in Devices |-> <<>>]
    /\ call = NoCall
    /\ result = NoCall
    /\ ThreadsIdle

NextBatch ==
    \E device_id \in {"", "d1"}, n \in 0..MaxOps, force_overwrite \in BOOLEAN :
        \E operations \in [1..n -> BatchOps], envs \in [1..n -> Envs] :
            /\ call = NoCall
            /\ Len(ledger) + n <= MaxRows
            /\ batch_sync_upload(device_id, operations, force_overwrite, 1, envs, MaxTime)

SpecBatch == InitBatch /\ [][NextBatch]_vars

\* ------------------------------------------------------------------ claims
IsBatch200 == call.op = "batch_upload" /\ result.status = 200

\* The operations of the last batch that carry the required fields.
ValidOps == {i \in 1..Len(call.operations) : ~MissingRequired(call.operations[i])}

\* The i-th operation's INSERT reaches the store and no earlier operation of
\* the batch targets the same record (the ledger holds no row of this device
\* before the batch).
WriteSucceeds(i) ==
    /\ call.envs[i].up3
    /\ \/ call.operations[i].record_id = NULL
       \/ \A j \in 1..(i - 1) :
              \/ call.operations[j].record_id # call.operations[i].record_id
              \/ call.operations[j].table_name # call.operations[i].table_name

\* C1 (as claimed): a batch of N operations of which k fail validation, c are
\* reported as conflicts and the rest are written reports processed = N-k-c,
\* failed = k, conflicts = c, and a conflicts list of c entries.
C1_Summary ==
    (IsBatch200 /\ \A i \in ValidOps : WriteSucceeds(i))
        => LET N == Len(call.operations)
               k == N - Cardinality(ValidOps)
               c == result.conflicts
           IN  /\ result.processed = N - k - c
               /\ result.failed = k
               /\ Len(result.conflict_list) = c

\* C2: with force_overwrite = true the Conflict Detector is run for no
\* operation of the batch.
C2_ForceSkipsDetector ==
    (IsBatch200 /\ call.force_overwrite) => result.detect_calls = 0

\* C2 witness: a forced batch holding an operation that passed validation
\* was answered, and the detector was not called.
C2_Witness ==
    /\ IsBatch200 /\ call.force_overwrite
    /\ ValidOps # {}
    /\ result.detect_calls = 0

\* C3 (as claimed): under force_overwrite every operation that passes
\* validation and whose ledger write succeeds is counted in processed, and no
\* conflict is reported.
C3_ForceProcessed ==
    (IsBatch200 /\ call.force_overwrite)
        => /\ result.processed >= Cardinality({i \in ValidOps : WriteSucceeds(i)})
           /\ result.conflicts = 0

\* The business record the last detect() call targets, if stored.
Target == {r \in records : r.table = call.table_name /\ r.id = call.record_id}

IsDetect == call.op = "detect"

ServerIsNewer ==
    /\ call.record_id # NULL
    /\ \E r \in Target : SqlGreater(r.updated_at, call.local_timestamp)

\* C4 (as claimed): for a non-null record_id whose stored updated_at is later
\* than local_timestamp, detect() returns NewerServerVersion with the server
\* timestamp and the local timestamp.
C4_NewerServer ==
    (IsDetect /\ ServerIsNewer)
        => \E r \in Target :
              result = [type |-> "newer_server_version",
                        server_timestamp |-> r.updated_at,
                        local_timestamp |-> call.local_timestamp]

\* C4 (amended): the same, provided the server-version query reached the store.
C4_NewerServerWhenRead ==
    (IsDetect /\ ServerIsNewer /\ call.up1)
        => \E r \in Target :
              result = [type |-> "newer_server_version",
                        server_timestamp |-> r.updated_at,
                        local_timestamp |-> call.local_timestamp]

\* C4 witness: detect() was called on a record whose updated_at is later than
\* the local timestamp and differs from its created_at, and the query ran.
C4_Witness ==
    /\ IsDetect /\ ServerIsNewer /\ call.up1
    /\ \E r \in Target : r.updated_at # r.created_at
    /\ result.type = "newer_server_version"

\* The ledger rows in Pending status for the same (table_name, record_id) as
\* the last detect() call, with a later local_timestamp.
LaterPending ==
    {i \in 1..Len(ledger) :
        /\ ledger[i].table_name = call.table_name
        /\ ledger[i].record_id = call.record_id
        /\ ledger[i].sync_status = "Pending"
        /\ ledger[i].local_timestamp > call.local_timestamp}

NoNewerServerVersion ==
    \A r \in Target : /\ ~SqlGreater(r.updated_at, call.local_timestamp)
                      /\ ~SqlGreater(r.created_at, call.local_timestamp)

\* C5 (as claimed): with one or more such pending rows and no newer server
\* version, detect() returns ConcurrentModification with their count.
C5_Concurrent ==
    (IsDetect /\ LaterPending # {} /\ NoNewerServerVersion)
        => result = [type |-> "concurrent_modification",
                     pending_operations |-> Cardinality(LaterPending)]

\* C5 (amended): the same for a non-null record_id, provided the pending-count
\* query reached the store.
C5_ConcurrentWhenRead ==
    (IsDetect /\ LaterPending # {} /\ NoNewerServerVersion
        /\ call.record_id # NULL /\ call.up2)
        => result = [type |-> "concurrent_modification",
                     pending_operations |-> Cardinality(LaterPending)]

\* C5 witness: detect() counted two later pending rows while the ledger also
\* held a later row that is no longer Pending.
C5_Witness ==
    /\ IsDetect /\ NoNewerServerVersion /\ call.record_id # NULL /\ call.up2
    /\ Cardinality(LaterPending) = 2
    /\ result.type = "concurrent_modification"

\* ------------------------------------------- the worker and its queues
MaxAppends == 11    \* appends to one device's queue

\* The one ledger row the queued operations name.
WorkerRow == LedgerRow("patients", 1, "UPDATE", "Pending", "d1", 1, 1, 1)

InitWorker ==
    /\ ledger = <<WorkerRow>>
    /\ records = {}
    /\ audit = <<>>
    /\ pending_operations = [d \in Devices |-> <<>>]
    /\ appended = [d \in Devices |-> 0]
    /\ processed_log = [d \in Devices |-> <<>>]
    /\ call = NoCall
    /\ result = NoCall
    /\ ThreadsIdle

WorkerAdd ==
    \E d \in Devices :
        /\ appended[d] < MaxAppends
        /\ AddOperation(d, Operation("patients", 1, "UPDATE", 1, 1))

\* A tick of the worker, the store reachable for its UPDATEs or not.
WorkerTick == \E up \in BOOLEAN : process_pending_syncs(MaxTime, up)

NextWorker == WorkerAdd \/ WorkerTick

SpecWorker == InitWorker /\ [][NextWorker]_vars

\* C9: in one tick at most 10 operations are processed and removed from any
\* one device's queue.
C9_AtMostTenPerTick ==
    call.op = "tick"
        => \A d \in Devices :
              /\ Len(result.processed[d]) <= 10
              /\ Len(call.before[d]) - Len(pending_operations[d]) <= 10
              /\ call.before[d] = result.processed[d] \o pending_operations[d]

\* C9 witness: a tick found more than 10 operations in a queue, processed 10
\* and left the others.
C9_Witness ==
    /\ call.op = "tick"
    /\ \E d \in Devices :
          /\ Len(call.before[d]) > 10
          /\ Len(result.processed[d]) = 10
          /\ pending_operations[d] # <<>>

\* C10: the worker processes a device's operations in the order add_operation
\* appended them: the identities in a device's log only increase.
C10_Fifo ==
    \A d \in Devices :
        \A i, j \in 1..Len(processed_log[d]) :
            i < j => processed_log[d][i] < processed_log[d][j]

\* C10 witness: a device's operations were processed over two ticks, with
\* appends made between them.
C10_Witness ==
    \E d \in Devices :
        /\ Len(processed_log[d]) > 1
        /\ call.op = "tick"
        /\ Len(result.processed[d]) > 1
        /\ Len(result.processed[d]) < Len(processed_log[d])
        /\ result.processed[d][1].n > 2

\* ------------------------------------------------ the ledger operations
\* All the operations on the ledger and the queues, one after another, with
\* the store up; the specifications of one call each let the store fail.
\* The sync_status table as the process finds it: the i-th row is device d1's
\* operation on patients/i, in any status, with synced_at stamped if it was
\* finalized.
StoredRow(i, status) ==
    [LedgerRow("patients", i, "UPDATE", status, "d1", 1, 1, 1)
        EXCEPT !.synced_at = IF status \in {"Synced", "Resolved"} THEN 1 ELSE NULL]

StoredLedgers ==
    UNION {{[i \in 1..n |-> StoredRow(i, st[i])] : st \in [1..n -> Statuses]} :
              n \in 0..MaxInitRows}

AllUp == [up1 |-> TRUE, up2 |-> TRUE, up3 |-> TRUE]

Init ==
    /\ ledger \in StoredLedgers
    /\ records = {[table |-> "patients", id |-> 1, updated_at |-> 2, created_at |-> 1]}
    /\ audit = <<>>
    /\ pending_operations = [d \in Devices |-> <<>>]
    /\ appended = [d \in Devices |-> 0]
    /\ processed_log = [d \in Devices |-> <<>>]
    /\ call = NoCall
    /\ result = NoCall
    /\ ThreadsIdle

\* A device uploads one operation, an insert of a new patient.
Upload ==
    \E force_overwrite \in BOOLEAN :
        /\ Len(ledger) < MaxRows
        /\ appended["d1"] < MaxQueue
        /\ batch_sync_upload("d1", <<Operation("patients", NULL, "INSERT", 2, NULL)>>,
                             force_overwrite, 1, <<AllUp>>, MaxTime)

\* An operator resolves a stored row.
Resolve ==
    \E conflict_id \in 1..Len(ledger), resolution \in {"use_server", "use_local", "merge"} :
        resolve_sync_conflict(conflict_id, resolution, 1, AllUp, MaxTime)

\* A device re-sends one pending record through the legacy endpoint.
LegacySync ==
    \E record_id \in {NULL, 1} :
        /\ Len(ledger) < MaxRows
        /\ \A i \in 1..Len(ledger) : ledger[i].retry_count < MaxRetry
        /\ sync_pending_records("d1",
               <<[table_name |-> "patients", record_id |-> record_id,
                  operation_type |-> "UPDATE", timestamp |-> 2]>>,
               1, <<TRUE>>, MaxTime)

\* A request handler queues an operation naming the first ledger row, or none.
Enqueue ==
    \E sync_id \in {NULL, 1} :
        /\ appended["d1"] < MaxQueue
        /\ AddOperation("d1", Operation("patients", 1, "UPDATE", 1, sync_id))

Tick == process_pending_syncs(MaxTime, TRUE)

Next == Resolve \/ Upload \/ LegacySync \/ Enqueue \/ Tick

Spec == Init /\ [][Next]_vars

\* ------------------------------------------- conflict resolution on its own
\* Any request, with any one of the handler's three queries failing.
ResolveAny ==
    \E conflict_id \in {NULL} \cup (1..MaxRows),
       resolution \in {"", "use_server", "use_local", "merge", "discard"},
       env \in {AllUp, [AllUp EXCEPT !.up1 = FALSE], [AllUp EXCEPT !.up2 = FALSE],
                [AllUp EXCEPT !.up3 = FALSE]} :
        /\ call = NoCall
        /\ resolve_sync_conflict(conflict_id, resolution, 1, env, MaxTime)

SpecResolve == Init /\ [][ResolveAny]_vars

\* The status changes the claim allows.
ClaimedTransitions ==
    {<<"Pending", "Synced">>, <<"Pending", "Failed">>,
     <<"Pending", "Conflict">>, <<"Conflict", "Resolved">>}

\* The status changes the ledger operations make: the worker's finalization
\* and use_local / merge set Synced, use_server sets Resolved on a Conflict row,
\* the legacy upsert sets Pending again.
CodeTransitions ==
    {<<s, "Synced">> : s \in Statuses} \cup {<<s, "Pending">> : s \in Statuses}
        \cup {<<"Conflict", "Resolved">>}

\* In one step no row disappears, every new row is Pending, and every status
\* change is in T.
StatusStep(T) ==
    /\ Len(ledger') >= Len(ledger)
    /\ \A i \in 1..Len(ledger) :
          ledger'[i].sync_status # ledger[i].sync_status
              => <<ledger[i].sync_status, ledger'[i].sync_status>> \in T
    /\ \A i \in (Len(ledger) + 1)..Len(ledger') : ledger'[i].sync_status = "Pending"

ResolvedConflictRow ==
    /\ call'.op = "resolve"
    /\ call'.conflict_id \in 1..Len(ledger)
    /\ ledger[call'.conflict_id].sync_status = "Conflict"

\* C7: resolve() with a conflict_id that names no row, or a row that is not in
\* Conflict status, answers 404, changes no ledger row and writes no audit
\* entry.
C7_NotFound ==
    [][(/\ call'.op = "resolve"
        /\ call'.conflict_id # NULL /\ call'.resolution # ""
        /\ ~ResolvedConflictRow)
          => /\ result'.status = 404
             /\ ledger' = ledger
             /\ audit' = audit]_vars

\* C7 witness: resolve(use_server) was called on a stored row that is not in
\* Conflict status, with the store up, and answered 404.
C7_Witness ==
    /\ call.op = "resolve" /\ call.resolution = "use_server" /\ call.env = AllUp
    /\ call.conflict_id \in 1..Len(ledger)
    /\ ledger[call.conflict_id].sync_status = "Synced"
    /\ result.status = 404

\* C8 (as claimed; the handler having read the row): resolve(id, use_server) on
\* a row in Conflict status returns success and leaves the row Resolved with
\* synced_at stamped, changing nothing else in the ledger and no business
\* record.
C8_UseServer ==
    [][(ResolvedConflictRow /\ call'.resolution = "use_server" /\ call'.env.up1)
          => /\ result'.status = 200
             /\ ledger'[call'.conflict_id].sync_status = "Resolved"
             /\ ledger'[call'.conflict_id].synced_at # NULL
             /\ ledger' = [ledger EXCEPT
                              ![call'.conflict_id].sync_status = "Resolved",
                              ![call'.conflict_id].synced_at =
                                  ledger'[call'.conflict_id].synced_at]
             /\ records' = records]_vars

\* ------------------------------------------ batch upload: the responses
\* C11: batch_upload answers 400 exactly when device_id or operations is
\* missing or empty, and then writes nothing to the ledger or to a queue; every
\* other request is answered 200 with a summary of all its operations.
C11_Status ==
    [][call'.op = "batch_upload"
          => IF call'.device_id = "" \/ call'.operations = <<>>
             THEN /\ result'.status = 400
                  /\ ledger' = ledger
                  /\ pending_operations' = pending_operations
             ELSE /\ result'.status = 200
                  /\ result'.total_operations = Len(call'.operations)
                  /\ result'.processed \in Nat /\ result'.failed \in Nat
                  /\ result'.conflicts = Len(result'.conflict_list)]_vars

\* C11 witness: a batch of two operations, one lacking a field and one whose
\* INSERT cannot reach the store, was answered 200 with both counted failed.
C11_Witness ==
    /\ IsBatch200 /\ Len(call.operations) = 2
    /\ \E i \in 1..2 : MissingRequired(call.operations[i])
    /\ \E i \in ValidOps : ~call.envs[i].up3
    /\ result.failed = 2

\* The errors the handler recorded for operations lacking a required field.
MissingFieldErrors ==
    {j \in 1..Len(result.errors) : result.errors[j] = "Missing required fields"}

\* C12: every operation of a batch is handled exactly once, whatever happened
\* to the operations before it: each operation lacking a field leaves one
\* missing-fields error, every failure leaves one error (of which the response
\* shows the first ten), and the three counts add up to the number of
\* operations.
C12_Isolation ==
    IsBatch200
        => /\ result.failed <= ErrorCap
                 => Cardinality(MissingFieldErrors)
                        = Len(call.operations) - Cardinality(ValidOps)
           /\ Len(result.errors) = Min(result.failed, ErrorCap)
           /\ result.processed + result.failed + result.conflicts = Len(call.operations)

\* C12 witness: the first operation of a batch failed validation and the
\* second, which carries every field, was still taken past validation: its
\* own, different, error is recorded after the first one's.
C12_Witness ==
    /\ IsBatch200 /\ Len(call.operations) = 2
    /\ MissingRequired(call.operations[1])
    /\ 2 \in ValidOps
    /\ Len(result.errors) = 2
    /\ result.errors[1] = "Missing required fields"
    /\ result.errors[2] # "Missing required fields"

\* The operations of the last batch for which the server-version query, had
\* it been made, finds a newer version of the record.
FoundConflicting ==
    {i \in ValidOps :
        /\ call.envs[i].up1
        /\ call.operations[i].record_id # NULL
        /\ \E r \in records :
              /\ r.table = call.operations[i].table_name
              /\ r.id = call.operations[i].record_id
              /\ SqlGreater(r.updated_at, call.operations[i].local_timestamp)}

C20_FailOpenProceeds ==
    IsBatch200
        => \A i \in ValidOps :
              (~call.envs[i].up1 /\ ~call.envs[i].up2 /\ WriteSucceeds(i))
                  => /\ result.processed >= 1
                     /\ \E k \in 1..Len(ledger) :
                           /\ ledger[k].device_id = call.device_id
                           /\ ledger[k].table_name = call.operations[i].table_name
                           /\ ledger[k].record_id = call.operations[i].record_id
                           /\ ledger[k].sync_status = "Pending"

\* ------------------------------------------ the Sync Processor on its own
\* process_sync_operation(operation, device_id, user_id) called on its own,
\* the INSERT reaching the store or not.
ProcessCall(operation, device_id, user_id, up, now) ==
    LET done == process_sync_operation(ledger, operation, device_id, user_id, up, now)
    IN  /\ call = NoCall
        /\ call' = [op |-> "process", operation |-> operation, device_id |-> device_id,
                    user_id |-> user_id, up |-> up, now |-> now]
        /\ result' = [ok |-> done.ok]
        /\ ledger' = done.ledger
        /\ UNCHANGED <<records, audit, pending_operations, appended, processed_log,
                       sync_lock, threads>>

ProcessAny ==
    \E operation \in {o \in BatchOps : ~MissingRequired(o)}, device_id \in Devices,
       user_id \in {1, 2}, up \in BOOLEAN, now \in Times :
        ProcessCall(operation, device_id, user_id, up, now)

NextProcess == ProcessAny \/ NextBatch

SpecProcess == InitBatch /\ [][NextProcess]_vars

\* C14: process() returns true exactly when it has appended one ledger row,
\* Pending, with the operation's fields, the device and the user, which it
\* does when the store is up and the device has no row yet; when the INSERT
\* fails it returns false and the ledger is as before; and a batch
\* counts every operation whose INSERT cannot succeed as failed (unless it
\* reports it as a conflict), with an error message.
C14_Process ==
    [][/\ call'.op = "process"
          => /\ ~call'.up => ~result'.ok
             /\ (call'.up /\ \A k \in 1..Len(ledger) :
                                ledger[k].device_id # call'.device_id) => result'.ok
             /\ IF result'.ok
                THEN ledger' = Append(ledger,
                        [table_name |-> call'.operation.table_name,
                         record_id |-> call'.operation.record_id,
                         operation_type |-> call'.operation.operation_type,
                         sync_status |-> "Pending",
                         device_id |-> call'.device_id, user_id |-> call'.user_id,
                         local_timestamp |-> call'.operation.local_timestamp,
                         server_timestamp |-> call'.now,
                         retry_count |-> 0, last_retry_at |-> NULL, synced_at |-> NULL])
                ELSE ledger' = ledger
       /\ (call'.op = "batch_upload" /\ result'.status = 200)
          => /\ result'.failed + result'.conflicts
                   >= Cardinality({i \in 1..Len(call'.operations) :
                          MissingRequired(call'.operations[i]) \/ ~call'.envs[i].up3})
             /\ Len(result'.errors) = Min(result'.failed, ErrorCap)]_vars

\* C14 witness: process() was called for device d1 and user 2 while the
\* ledger held another device's row, returned true, and the ledger's second
\* row is the new one.
C14_Witness ==
    /\ call.op = "process" /\ result.ok
    /\ Len(ledger) = 2
    /\ ledger[2].device_id = "d1" /\ ledger[2].user_id = 2
    /\ ledger[2].sync_status = "Pending"

\* ------------------------------------------ the worker when the store fails
\* C16 (as claimed): the operations of a tick whose finalization fails (the
\* UPDATE does not reach the store) stay in their device's queue, in order, for
\* the next tick, and their ledger rows stay as they were.
C16_FailedStaysQueued ==
    [][(call'.op = "tick" /\ ~call'.up)
          => /\ pending_operations' = pending_operations
             /\ ledger' = ledger]_vars

\* ------------------------------------------ the ledger operations, fairly
\* The worker thread ticks every sync_interval seconds for as long as the
\* process runs: a tick that can change something eventually happens.
SpecLive == Init /\ [][Next]_vars /\ WF_vars(Tick)

\* A batch holding an operation with every required field was answered 200
\* (the store being up for all its queries).
ValidUploadAnswered == IsBatch200 /\ ValidOps # {}

\* The ledger holds the uploaded insert's row, finalized.
UploadedRowSynced ==
    \E k \in 1..Len(ledger) :
        /\ ledger[k].operation_type = "INSERT"
        /\ ledger[k].sync_status = "Synced"
        /\ ledger[k].synced_at # NULL

RowsKept ==
    /\ Len(ledger') >= Len(ledger)
    /\ \A i \in 1..Len(ledger) :
          /\ ledger'[i].table_name = ledger[i].table_name
          /\ ledger'[i].record_id = ledger[i].record_id
          /\ ledger'[i].device_id = ledger[i].device_id

\* The ledger rows that carry the (table_name, record_id, device_id) of the
\* record a legacy call sends.
SameKeyRows(L, c) ==
    {k \in 1..Len(L) :
        /\ L[k].table_name = c.records[1].table_name
        /\ L[k].record_id = c.records[1].record_id
        /\ L[k].device_id = c.device_id}

\* C19 (as claimed): no step removes a ledger row, and the legacy upsert adds
\* no row when the ledger already has one with the record's (table_name,
\* record_id, device_id).
C19_NoSecondRow ==
    [][/\ RowsKept
       /\ (call'.op = "sync_pending" /\ SameKeyRows(ledger, call') # {})
             => Len(ledger') = Len(ledger)]_vars

\* C19 (amended): no step removes a ledger row, and the legacy upsert adds no
\* row when the ledger already has one with the record's key and the record_id
\* is not null; with a null record_id it adds a row every time.
C19_NoSecondRowNonNull ==
    [][/\ RowsKept
       /\ call'.op = "sync_pending"
             => IF call'.records[1].record_id # NULL /\ SameKeyRows(ledger, call') # {}
                THEN Len(ledger') = Len(ledger)
                ELSE Len(ledger') = Len(ledger) + 1]_vars

\* C19 witness: a legacy upsert of patients/1 found the device's row for it
\* and updated it (retry_count raised), the ledger keeping one row for the key
\* among others.
C19_Witness ==
    /\ call.op = "sync_pending" /\ call.records[1].record_id = 1
    /\ result.status = 200
    /\ Cardinality(SameKeyRows(ledger, call)) = 1
    /\ \E k \in SameKeyRows(ledger, call) : ledger[k].retry_count > 0
    /\ Len(ledger) > 1

\* ------------------------------------------ the manager's methods as threads
\* add_operation and process_pending_syncs statement by statement, as the
\* request-handler threads and the worker thread run them.
MaxThreadAppends == 2    \* appends to one device's queue by the handler threads

\* (A lock that never blocks.)
CanAcquireAlways(lock) == TRUE

\* `with self.sync_lock:` blocks until no thread holds the lock.
CanAcquire(lock) == lock = "free"

\* add_operation: entering `with self.sync_lock`.
HandlerAcquire(h, device_id, operation) ==
    /\ threads[h].at = "idle"
    /\ CanAcquire(sync_lock)
    /\ sync_lock' = h
    /\ threads' = [threads EXCEPT ![h] = [at |-> "append", device_id |-> device_id,
                                          operation |-> operation, todo |-> <<>>]]
    /\ UNCHANGED <<ledger, records, audit, pending_operations, appended, processed_log,
                   call, result>>

\* self.pending_operations[device_id].append(operation)
HandlerAppend(h) ==
    LET q == add_operation(pending_operations, appended, threads[h].device_id,
                           threads[h].operation)
    IN  /\ threads[h].at = "append"
        /\ pending_operations' = q.pending
        /\ appended' = q.appended
        /\ threads' = [threads EXCEPT ![h].at = "release"]
        /\ UNCHANGED <<ledger, records, audit, processed_log, call, result, sync_lock>>

\* Leaving the `with` block of add_operation.
HandlerRelease(h) ==
    /\ threads[h].at = "release"
    /\ sync_lock' = "free"
    /\ threads' = [threads EXCEPT ![h] = Idle]
    /\ UNCHANGED <<ledger, records, audit, pending_operations, appended, processed_log,
                   call, result>>

\* process_pending_syncs: entering `with self.sync_lock` and taking
\* list(self.pending_operations.items()).
WorkerAcquire ==
    /\ threads["worker"].at = "idle"
    /\ CanAcquire(sync_lock)
    /\ sync_lock' = "worker"
    /\ threads' = [threads EXCEPT !["worker"] =
                      [Idle EXCEPT !.at = "scan", !.todo = SetToSeq(Devices)]]
    /\ UNCHANGED <<ledger, records, audit, pending_operations, appended, processed_log,
                   call, result>>

\* One pass of the for loop up to and including
\* self.sync_device_operations(device_id, operations[:10]); a device whose list
\* is empty is passed over.
WorkerSync(now, up) ==
    LET d == Head(threads["worker"].todo)
        operations == pending_operations[d]
    IN  /\ threads["worker"].at = "scan"
        /\ threads["worker"].todo # <<>>
        /\ IF operations = <<>>
           THEN /\ threads' = [threads EXCEPT !["worker"].todo = Tail(@)]
                /\ UNCHANGED <<ledger, processed_log>>
           ELSE /\ ledger' = sync_device_operations(ledger, FirstBatch(operations), now, up)
                /\ processed_log' = [processed_log EXCEPT
                                        ![d] = @ \o Tags(FirstBatch(operations))]
                /\ threads' = [threads EXCEPT !["worker"].at = "cut"]
        /\ UNCHANGED <<records, audit, pending_operations, appended, call, result, sync_lock>>

\* self.pending_operations[device_id] = operations[10:], `operations` being the
\* list object the queue map still holds.
WorkerCut ==
    LET d == Head(threads["worker"].todo)
    IN  /\ threads["worker"].at = "cut"
        /\ pending_operations' = [pending_operations EXCEPT ![d] = RestAfterBatch(@)]
        /\ threads' = [threads EXCEPT !["worker"].at = "scan", !["worker"].todo = Tail(@)]
        /\ UNCHANGED <<ledger, records, audit, appended, processed_log, call, result,
                       sync_lock>>

\* Leaving the `with` block of process_pending_syncs.
WorkerRelease ==
    /\ threads["worker"].at = "scan"
    /\ threads["worker"].todo = <<>>
    /\ sync_lock' = "free"
    /\ threads' = [threads EXCEPT !["worker"] = Idle]
    /\ UNCHANGED <<ledger, records, audit, pending_operations, appended, processed_log,
                   call, result>>

HandlerStep(h) ==
    \/ \E d \in Devices :
          /\ appended[d] + Cardinality({t \in Threads : /\ threads[t].at = "append"
                                                        /\ threads[t].device_id = d})
                < MaxThreadAppends
          /\ HandlerAcquire(h, d, Operation("patients", 1, "UPDATE", 1, 1))
    \/ HandlerAppend(h)
    \/ HandlerRelease(h)

WorkerStep ==
    \/ WorkerAcquire
    \/ \E up \in BOOLEAN : WorkerSync(MaxTime, up)
    \/ WorkerCut
    \/ WorkerRelease

NextLock == WorkerStep \/ \E h \in Threads \ {"worker"} : HandlerStep(h)

SpecLock == InitWorker /\ [][NextLock]_vars

\* The sequence 1, ..., n.
UpTo(n) == [i \in 1..n |-> i]

\* The operations of device d the worker has processed before its current
\* pass over d, if it is between processing d's batch and cutting d's queue.
ProcessedBefore(d) ==
    IF threads["worker"].at = "cut" /\ Head(threads["worker"].todo) = d
    THEN SubSeq(processed_log[d], 1,
                Len(processed_log[d]) - Len(FirstBatch(pending_operations[d])))
    ELSE processed_log[d]

\* C18: only the thread holding sync_lock is inside add_operation or
\* process_pending_syncs, and whatever the interleaving no appended operation
\* is lost and none is processed twice: the operations processed for a device
\* (before the batch in hand) followed by those in its queue are exactly the
\* operations appended, each once, in the order appended, and no operation is
\* in the log twice.
C18_NoneLostNoneTwice ==
    /\ \A t \in Threads : threads[t].at # "idle" => sync_lock = t
    /\ \A d \in Devices :
          /\ ProcessedBefore(d) \o Tags(pending_operations[d]) = UpTo(appended[d])
          /\ \A i, j \in 1..Len(processed_log[d]) :
                i # j => processed_log[d][i] # processed_log[d][j]

\* C18 witness: a handler thread holds the lock, about to append d1's second
\* operation, after the worker processed d1's first operation in a pass of its
\* own; the other threads are outside the manager's methods.
C18_Witness ==
    /\ sync_lock = "h1"
    /\ threads["h1"].at = "append" /\ threads["h1"].device_id = "d1"
    /\ threads["worker"].at = "idle" /\ threads["h2"].at = "idle"
    /\ processed_log["d1"] = <<1>>
    /\ appended["d1"] = 1

\* ------------------------------------------ detect(): one result, in order
\* detect() returned nothing or one conflict record of one of the two types.
OneResult ==
    \/ result = NoConflict
    \/ /\ result.type = "newer_server_version"
       /\ DOMAIN result = {"type", "server_timestamp", "local_timestamp"}
    \/ /\ result.type = "concurrent_modification"
       /\ DOMAIN result = {"type", "pending_operations"}

C26_NullNeverNewer ==
    (IsDetect /\ call.record_id = NULL) => result.type # "newer_server_version"

\* C26 witness: detect() was called with a null record_id and a local
\* timestamp older than the updated_at of a stored record of the table, the
\* query reaching the store.
C26_Witness ==
    /\ IsDetect /\ call.record_id = NULL /\ call.up1
    /\ \E r \in records : /\ r.table = call.table_name
                          /\ SqlGreater(r.updated_at, call.local_timestamp)
    /\ result.type # "newer_server_version"

\* ------------------------------------------ batch upload: validation, counts
\* The operations of a list that lack table_name, operation_type or
\* local_timestamp.
Lacking(operations) ==
    {i \in 1..Len(operations) :
        \/ operations[i].table_name = ""
        \/ operations[i].operation_type = ""
        \/ operations[i].local_timestamp = NULL}

\* C22: each operation of a batch that lacks a required field is counted
\* failed and leaves one missing-fields error; the detector is run, a ledger
\* row written and a queue entry appended for at most the other operations.
C22_InvalidCounted ==
    [][(call'.op = "batch_upload" /\ result'.status = 200)
          => LET lacking == Cardinality(Lacking(call'.operations))
                 others == Len(call'.operations) - lacking
             IN  /\ result'.failed >= lacking
                 /\ result'.failed <= ErrorCap
                       => Cardinality({j \in 1..Len(result'.errors) :
                              result'.errors[j] = "Missing required fields"}) = lacking
                 /\ result'.detect_calls <= others
                 /\ Len(ledger') - Len(ledger) <= others
                 /\ \A d \in Devices : appended'[d] - appended[d] <= others
                 /\ others = 0 => (ledger' = ledger /\ pending_operations' = pending_operations)]_vars

\* C22 witness: a batch of two operations, one without table_name and one
\* without local_timestamp, was answered with both counted failed and nothing
\* written.
C22_Witness ==
    /\ IsBatch200 /\ Len(call.operations) = 2
    /\ call.operations[1].table_name = ""
    /\ call.operations[2].local_timestamp = NULL
    /\ result.failed = 2 /\ result.detect_calls = 0
    /\ \A d \in Devices : pending_operations[d] = <<>>

\* C27: in every 200 response processed + failed + conflicts equals
\* total_operations, the length of the submitted list, conflicts being the
\* length of the conflicts list.
C27_CountsAddUp ==
    IsBatch200
        => /\ result.total_operations = Len(call.operations)
           /\ result.processed + result.failed + Len(result.conflict_list)
                 = result.total_operations
           /\ result.conflicts = Len(result.conflict_list)

\* C27 witness: a batch of two operations that both carry every field, the
\* INSERT of one of them unable to reach the store, was answered with counts
\* that add up to two.
C27_Witness ==
    /\ IsBatch200 /\ ValidOps = {1, 2}
    /\ call.envs[1].up3 /\ ~call.envs[2].up3
    /\ result.total_operations = 2
    /\ result.processed + result.failed + result.conflicts = 2

\* ------------------------------------------ resolve(): audit, other values
\* The three resolutions the handler's if / elif chain names.
Resolutions == {"use_server", "use_local", "merge"}

\* C23 (as claimed): a resolve() that succeeds with one of the three
\* resolutions appends exactly one audit entry, which records the resolution,
\* the acting user and the table_name and record_id of the resolved row; a
\* resolve() that does not succeed appends none.
C23_AuditedOnce ==
    [][call'.op = "resolve"
          => IF result'.status = 200 /\ call'.resolution \in Resolutions
             THEN /\ Len(audit') = Len(audit) + 1
                  /\ SubSeq(audit', 1, Len(audit)) = audit
                  /\ audit'[Len(audit')].user_id = call'.user_id
                  /\ audit'[Len(audit')].new_values
                        = [resolution |-> call'.resolution,
                           table_name |-> ledger[call'.conflict_id].table_name,
                           record_id |-> ledger[call'.conflict_id].record_id]
             ELSE result'.status # 200 => audit' = audit]_vars

\* C24 (as claimed): resolve() with a resolution other than the three, on a
\* row in Conflict status which the handler has read, does not report success,
\* leaves the row in Conflict and writes no audit entry.
C24_OtherRefused ==
    [][(ResolvedConflictRow /\ call'.env.up1 /\ call'.resolution \notin Resolutions)
          => /\ result'.status # 200
             /\ ledger' = ledger
             /\ audit' = audit]_vars

\* C25 (as claimed; the handler having read the row): resolve() with use_local
\* or merge on a row in Conflict status leaves the row Synced with synced_at
\* stamped, and changes nothing else in the ledger and no business record.
C25_UseLocalOrMerge ==
    [][(ResolvedConflictRow /\ call'.env.up1 /\ call'.resolution \in {"use_local", "merge"})
          => /\ ledger'[call'.conflict_id].sync_status = "Synced"
             /\ ledger'[call'.conflict_id].synced_at # NULL
             /\ \A i \in 1..Len(ledger) : i # call'.conflict_id => ledger'[i] = ledger[i]
             /\ Len(ledger') = Len(ledger)
             /\ records' = records]_vars

\* ------------------------------------------ resolve() in two threads
\* resolve_sync_conflict statement by statement, as two request-handler
\* threads run it: the SELECT, then (the row found) the UPDATE, the audit
\* INSERT and the response.  Nothing ties the SELECT to the UPDATE.
ResolveRead(h, conflict_id, resolution, user_id) ==
    LET conflict == ConflictQuery(ledger, conflict_id, TRUE)
    IN  /\ threads[h] = Idle
        /\ call' = [op |-> "resolve_select", thread |-> h, conflict_id |-> conflict_id,
                    resolution |-> resolution, user_id |-> user_id]
        /\ IF ~Truthy(conflict)
           THEN /\ result' = ErrorResponse(404)
                /\ UNCHANGED threads
           ELSE /\ result' = NoCall
                /\ threads' = [threads EXCEPT ![h] =
                                  [at |-> "update", conflict_id |-> conflict_id,
                                   resolution |-> resolution, user_id |-> user_id,
                                   conflict_data |-> conflict.rows[1]]]
        /\ UNCHANGED <<ledger, records, audit, pending_operations, appended, processed_log,
                       sync_lock>>

ResolveUpdate(h, now) ==
    LET my == threads[h]
    IN  /\ my.at = "update"
        /\ call' = [op |-> "resolve_update", thread |-> h, conflict_id |-> my.conflict_id,
                    resolution |-> my.resolution, user_id |-> my.user_id]
        /\ ledger' = ApplyResolution(ledger, my.conflict_id, my.resolution, now, TRUE)
        /\ audit' = audit_log(audit, my.user_id, "RESOLVE_CONFLICT", "sync_status",
                              my.conflict_id,
                              [resolution |-> my.resolution,
                               table_name |-> my.conflict_data.table_name,
                               record_id |-> my.conflict_data.record_id],
                              TRUE)
        /\ result' = [status |-> 200, success |-> TRUE]
        /\ threads' = [threads EXCEPT ![h] = Idle]
        /\ UNCHANGED <<records, pending_operations, appended, processed_log, sync_lock>>

NextRace ==
    \E h \in Threads \ {"worker"} :
        \/ \E conflict_id \in 1..Len(ledger), resolution \in Resolutions :
              ResolveRead(h, conflict_id, resolution, 1)
        \/ ResolveUpdate(h, MaxTime)

SpecRace == Init /\ [][NextRace]_vars

\* C28 (as claimed): of the resolve() calls for one conflict_id at most one
\* succeeds (one audit entry per ledger row), and the sync_status of a row that
\* has left Conflict is not changed by a resolve() that completes later.
C28_DecidedOnce ==
    [][\A i \in 1..Len(ledger) :
          /\ ledger[i].sync_status # "Conflict"
                => ledger'[i].sync_status = ledger[i].sync_status
          /\ Cardinality({k \in 1..Len(audit') : audit'[k].record_id = i}) <= 1]_vars

\* ------------------------------------------ the legacy upsert on its own
\* One request to the legacy endpoint, the store reachable or not for each
\* record's INSERT.
LegacyRecords ==
    {[table_name |-> "patients", record_id |-> rid, operation_type |-> "UPDATE",
      timestamp |-> 2] : rid \in {NULL, 1}}

LegacyAny ==
    \E device_id \in {"", "d1"}, n \in 0..MaxOps :
        \E recs \in [1..n -> LegacyRecords], envs \in [1..n -> BOOLEAN] :
            /\ call = NoCall
            /\ Len(ledger) + n <= MaxRows
            /\ sync_pending_records(device_id, recs, 1, envs, MaxTime)

SpecLegacy == Init /\ [][LegacyAny]_vars

\* C29 (as claimed): the legacy endpoint counts in synced_count the records
\* whose upsert was written, in failed_count those whose write hit a storage
\* error, and the two add up to the number of records.
C29_CountsWritten ==
    (call.op = "sync_pending" /\ result.status = 200)
        => /\ result.synced_count = Cardinality({i \in 1..Len(call.envs) : call.envs[i]})
           /\ result.failed_count = Cardinality({i \in 1..Len(call.envs) : ~call.envs[i]})
           /\ result.synced_count + result.failed_count = Len(call.records)

\* ------------------------------------------ the worker drains the queues
\* The worker and its queues with the worker thread ticking for as long as the
\* process runs.
SpecWorkerLive == SpecWorker /\ WF_vars(WorkerTick)

\* C30: every tick, whether its UPDATEs reach the store or not, takes the
\* first ten operations (or all, if fewer) off every device's queue, so a
\* queue of n operations is empty after ceil(n / 10) ticks without appends; and
\* under fair ticks every queue that holds operations becomes empty.
C30_Drains ==
    /\ [][call'.op = "tick"
             => \A d \in Devices :
                   Len(pending_operations'[d])
                      = IF Len(pending_operations[d]) > BatchSize
                        THEN Len(pending_operations[d]) - BatchSize ELSE 0]_vars
    /\ \A d \in Devices : (pending_operations[d] # <<>>) ~> (pending_operations[d] = <<>>)

\* C30 witness: a tick whose UPDATEs did not reach the store found more than
\* ten operations in one queue and some in the other, emptied the second and
\* left of the first those after the tenth.
C30_Witness ==
    /\ call.op = "tick" /\ ~call.up
    /\ Len(call.before["d1"]) > BatchSize
    /\ call.before["d2"] # <<>>
    /\ pending_operations["d2"] = <<>>
    /\ Len(pending_operations["d1"]) = Len(call.before["d1"]) - BatchSize

====
